---------------------------- MODULE Spec2Model ----------------------------
(***************************************************************************)
(* The WebSocket listener lifecycle of systembridgegui.Application        *)
(* (src/systembridgegui/__init__.py), the tray's update entry             *)
(* (system_tray.py) and the URLs of the windows (window/main.py,          *)
(* window/player.py).                                                      *)
(*                                                                         *)
(* State: the asyncio tasks of the application (the connect phase          *)
(* _setup_websocket and the receive loop _listen_for_data), the loop's     *)
(* FIFO queue of ready callbacks, the handle _websocket_listen_task, the   *)
(* connector's `connected` flag, the shared ModulesData, and the position  *)
(* of _exit_application, which drives the loop with run_until_complete.    *)
(*                                                                         *)
(* The connector library (connect, get_data, listen, exit_backend, close)  *)
(* is outside the repository: each of its awaits is an environment event   *)
(* that completes with success or with one of the exceptions the code      *)
(* names, after a time that is the connector's to choose.                  *)
(***************************************************************************)
EXTENDS Naturals, Sequences, FiniteSets

\* ---- bounds of the model
MaxTasks == 4          \* tasks ever created on the loop
MaxExits == 2          \* calls of _exit_application

\* ---- program constants
TimeoutSeconds == 10   \* asyncio.timeout(10)
PollSeconds == 1       \* asyncio.sleep(1)

TaskIds == 1..MaxTasks
Modules == {"system", "cpu"}
Payloads == {"A", "B"}
None == "None"
Failures == {"auth", "connerr", "closed"}
Msgs == Modules \X Payloads

VARIABLES
    tasks,       \* task id -> task record
    ready,       \* the loop's queue of ready task steps (call_soon order)
    listenTask,  \* self._websocket_listen_task: 0 is None, else a task id
    connected,   \* self._websocket_client.connected
    data,        \* self._data: module name -> payload or None
    exitPc,      \* position of _exit_application
    exitTask,    \* the task run by run_until_complete(_setup_websocket(listen=False))
    exitReq,     \* how exit_backend() ended in the current/last call
    exitCalls,   \* calls of _exit_application so far
    exitResult,  \* "exited" (sys.exit) or "error" in the state a call of
                 \* _exit_application ends in, "none" in every other state
    loopClosed,  \* self._loop.close() was called
    lastDone,    \* how a task ended, in the state its last step leads to;
                 \* NothingEnded in every other state
    lastApply,   \* the call of _handle_module that led to this state (module,
                 \* payload, the field's value before); else NothingApplied
    trayText,    \* text of the tray menu's update entry (actions()[3])
    loopDriven,  \* TRUE: the caller runs the asyncio loop while no exit is in
                 \* progress; FALSE: the main thread is in QApplication.exec()
                 \* (line 166), which runs no asyncio callback
    url          \* the URL a window loaded last, with what it was built from;
                 \* NoUrl while no window has loaded one

vars == <<tasks, ready, listenTask, connected, data, exitPc, exitTask,
          exitReq, exitCalls, exitResult, loopClosed, lastDone, lastApply,
          trayText, loopDriven, url>>

\* ---- tasks
FreeTask ==
    [kind |-> "free", listen |-> FALSE, pc |-> "none", res |-> "none",
     budget |-> 0]

NewSetup(l) == [FreeTask EXCEPT !.kind = "setup", !.listen = l, !.pc = "start"]
NewListen == [FreeTask EXCEPT !.kind = "listen", !.pc = "start"]

\* a finished task, for as long as something still refers to it
Finished(tk) == [FreeTask EXCEPT !.kind = tk.kind, !.listen = tk.listen, !.pc = "done"]

\* how task tk ended: with result or exception o at the await tk.pc; exc says
\* that the exception left the coroutine unhandled
Ended(tk, o, e) ==
    [kind |-> tk.kind, listen |-> tk.listen, at |-> tk.pc, out |-> o, exc |-> e]
NothingApplied == [module |-> "none", payload |-> None, old |-> None]
NothingEnded ==
    [kind |-> "free", listen |-> FALSE, at |-> "none", out |-> "none", exc |-> FALSE]

\* a finished task that neither the handle nor run_until_complete refers to is
\* garbage: its slot is free again
Collected(ts, h, e) ==
    [t \in TaskIds |-> IF ts[t].pc = "done" /\ t # h /\ t # e THEN FreeTask ELSE ts[t]]

FreeIds(ts) == {i \in TaskIds : ts[i].kind = "free"}
NextId(ts) == CHOOSE i \in FreeIds(ts) : \A j \in FreeIds(ts) : i <= j
InQueue(rd, t) == \E i \in 1..Len(rd) : rd[i] = t
Enqueue(rd, t) == IF InQueue(rd, t) THEN rd ELSE Append(rd, t)
Live(ts, t) == t # 0 /\ ts[t].kind # "free" /\ ts[t].pc # "done"


\* asyncio.Task.cancel(): no effect on a finished task; otherwise the task's next
\* step raises CancelledError in place of whatever it was waiting for
CancelTask(ts, t, who) ==
    IF ~Live(ts, t) \/ ts[t].res = "cancelled" THEN ts
    ELSE [ts EXCEPT ![t].res = "cancelled"]

\* the wake-up a cancel() schedules for a task that is not yet in the queue
CancelQueue(ts, rd, t) == IF Live(ts, t) THEN Enqueue(rd, t) ELSE rd

\* if self._websocket_listen_task: .cancel(); self._websocket_listen_task = None
\* (the handle is truthy whenever it is a Task, finished or not)
CancelHandle(ts, rd, h, who) ==
    IF h = 0 THEN [tasks |-> ts, ready |-> rd, handle |-> 0]
    ELSE [tasks |-> CancelTask(ts, h, who), ready |-> CancelQueue(ts, rd, h),
          handle |-> 0]

\* _setup_listener with the cancel of the previous task left out
SetupListenerNoCancel(ts, rd, h) ==
    LET n == NextId(ts)
    IN  [tasks |-> [ts EXCEPT ![n] = NewListen], ready |-> Append(rd, n),
         handle |-> n]

\* _setup_listener: cancel and clear the previous handle, then create the task
SetupListener(ts, rd, h) ==
    LET c == CancelHandle(ts, rd, h, "setup_listener")
        n == NextId(c.tasks)
    IN  [tasks |-> [c.tasks EXCEPT ![n] = NewListen],
         ready |-> Append(c.ready, n),
         handle |-> n]

\* the end of _listen_for_data (lines 287-289), run by task self: whatever task
\* the handle holds at that moment is cancelled and the handle is cleared
ListenTeardown(ts, rd, h, self) ==
    IF h = self THEN [tasks |-> ts, ready |-> rd, handle |-> 0]
    ELSE CancelHandle(ts, rd, h, "teardown")

\* an except clause that only logs
FailureHandlerKeepsHandle(ts, rd, h) == [tasks |-> ts, ready |-> rd, handle |-> h]

\* the except clauses of _setup_websocket (lines 341-358): all three do the same
FailureHandler(ts, rd, h) == CancelHandle(ts, rd, h, "handler")

\* _handle_module that keeps a value once it is set
HandleModuleFirstWins(d, m, p) == IF d[m] = None THEN [d EXCEPT ![m] = p] ELSE d

\* _handle_module: setattr(self._data, module_name, module)
HandleModule(d, m, p) == [d EXCEPT ![m] = p]

\* ---- the tray (system_tray.py)

\* the attributes of the System object a payload of the system module carries
\* that update_tray_data reads; Python's True and False are written as strings
SystemOf(p) ==
    IF p = "A"
    THEN [version |-> "4.0.0", version_latest |-> "4.0.0",
          version_newer_available |-> "False"]
    ELSE [version |-> "4.0.0", version_latest |-> "4.1.0",
          version_newer_available |-> "True"]

\* getattr(data.system, name) if data.system else None
SystemAttr(d, name) == IF d["system"] # None THEN SystemOf(d["system"])[name] ELSE None

\* the entry as the menu is built: menu.addAction("Check for Updates")
InitialTrayText == <<"Check for Updates", None>>

\* update_tray_data: the text it sets on actions()[3], as <<text, version>>
UpdateTrayData(d) ==
    IF SystemAttr(d, "version_newer_available") # None
    THEN <<"New version avaliable", SystemAttr(d, "version_latest")>>
    ELSE IF SystemAttr(d, "version") # None
    THEN <<"Up to date", SystemAttr(d, "version")>>
    ELSE <<"Check for Updates", None>>

\* the exceptions _listen_for_data catches (lines 278-285)
ListenCaught == {"cancelled", "connerr", "closed"}

\* a wait loop that tests another field
WaitOverWrongModule(d) == d["cpu"] # None

\* while self._data.system is None: await asyncio.sleep(1)
WaitOver(d) == d["system"] # None

\* ---- the URLs of the windows (window/main.py, window/player.py)
\* a string is the sequence of its characters

\* the paths the tray opens (system_tray.py lines 17-20)
PATH_BRIDGES_OPEN_ON == <<"/", "a", "p", "p", "/", "b", "r", "i", "d", "g", "e", "s", "/", "o", "p", "e", "n", "o", "n", ".", "h", "t", "m", "l">>
PATH_BRIDGES_SETUP == <<"/", "a", "p", "p", "/", "b", "r", "i", "d", "g", "e", "s", "/", "s", "e", "t", "u", "p", ".", "h", "t", "m", "l">>
PATH_DATA == <<"/", "a", "p", "p", "/", "d", "a", "t", "a", ".", "h", "t", "m", "l">>
PATH_SETTINGS == <<"/", "a", "p", "p", "/", "s", "e", "t", "t", "i", "n", "g", "s", ".", "h", "t", "m", "l">>
Paths == {PATH_BRIDGES_OPEN_ON, PATH_BRIDGES_SETUP, PATH_DATA, PATH_SETTINGS}

\* the media types a PlayerWindow is created with (__init__.py lines 106-132)
MediaTypes == {<<"a", "u", "d", "i", "o">>, <<"v", "i", "d", "e", "o">>}

\* the names of the two query keys (constants of systembridgeshared.const)
QUERY_TOKEN == <<"t", "o", "k", "e", "n">>
QUERY_API_PORT == <<"a", "p", "i", "-", "p", "o", "r", "t">>

\* what the settings can hold: tokens with and without characters that a
\* query string reserves, and API ports
Tokens == {<<"a", "b", "c">>, <<"a", "&", "b", "=", "c">>, <<"a", " ", "b", "/", "+">>}
ApiPorts == {80, 9174}

\* fields of MediaPlay in the order of its dict(), and the values of a field:
\* None, or the text str() gives for the value
MediaFields == <<<<"t", "i", "t", "l", "e">>, <<"u", "r", "l">>, <<"v", "o", "l", "u", "m", "e">>>>
MediaNull == [null |-> TRUE, str |-> <<>>]
MediaValues == {MediaNull, [null |-> FALSE, str |-> <<"4", "0">>],
                [null |-> FALSE, str |-> <<"a", " ", "b", "?", "x", "=", "1", "&", "y">>]}
MediaPlays == [1..Len(MediaFields) -> MediaValues]

\* str() of a non-negative int
Digit(n) == <<"0", "1", "2", "3", "4", "5", "6", "7", "8", "9">>[n + 1]
RECURSIVE IntStr(_)
IntStr(n) == IF n < 10 THEN <<Digit(n)>> ELSE IntStr(n \div 10) \o <<Digit(n % 10)>>

\* urllib.parse.quote_plus: a space becomes "+", a character outside the
\* unreserved set becomes "%" and its two hex digits, the others stay
PercentCode ==
    [c \in {"&", "=", "/", "?", "+", "%", ":", "#"} |->
        CASE c = "&" -> <<"2", "6">>
          [] c = "=" -> <<"3", "D">>
          [] c = "/" -> <<"2", "F">>
          [] c = "?" -> <<"3", "F">>
          [] c = "+" -> <<"2", "B">>
          [] c = "%" -> <<"2", "5">>
          [] c = ":" -> <<"3", "A">>
          [] c = "#" -> <<"2", "3">>]
QuoteChar(c) ==
    IF c = " " THEN <<"+">>
    ELSE IF c \in DOMAIN PercentCode THEN <<"%">> \o PercentCode[c]
    ELSE <<c>>
RECURSIVE QuotePlus(_)
QuotePlus(str) == IF str = <<>> THEN <<>> ELSE QuoteChar(Head(str)) \o QuotePlus(Tail(str))

\* urllib.parse.urlencode of a dict, given as the sequence of its items
RECURSIVE UrlEncode(_)
UrlEncode(d) ==
    IF d = <<>> THEN <<>>
    ELSE LET item == QuotePlus(d[1][1]) \o <<"=">> \o QuotePlus(d[1][2])
         IN  IF Len(d) = 1 THEN item ELSE item \o <<"&">> \o UrlEncode(Tail(d))

\* one item of a dict display: a new key goes to the end, a key the dict has
\* already keeps its place and takes the new value
DictSet(d, k, v) ==
    IF \E i \in 1..Len(d) : d[i][1] = k
    THEN [i \in 1..Len(d) |-> IF d[i][1] = k THEN <<k, v>> ELSE d[i]]
    ELSE Append(d, <<k, v>>)

\* {k1: v1, ..., **items}: the items of a dict display from left to right
RECURSIVE DictDisplay(_, _)
DictDisplay(d, items) ==
    IF items = <<>> THEN d
    ELSE DictDisplay(DictSet(d, items[1][1], items[1][2]), Tail(items))

\* media_play.dict(exclude_none=True)
MediaDict(media) ==
    LET all == [i \in 1..Len(MediaFields) |-> <<MediaFields[i], media[i]>>]
        set == SelectSeq(all, LAMBDA it : ~it[2].null)
    IN  [i \in 1..Len(set) |-> <<set[i][1], set[i][2].str>>]

\* a dict display that names the port before the token
SettingsItemsPortFirst(token, port) ==
    <<<<QUERY_API_PORT, IntStr(port)>>, <<QUERY_TOKEN, token>>>>

\* {QUERY_TOKEN: token, QUERY_API_PORT: api_port}
SettingsItems(token, port) == <<<<QUERY_TOKEN, token>>, <<QUERY_API_PORT, IntStr(port)>>>>

HttpLocalhost == <<"h", "t", "t", "p", ":", "/", "/", "l", "o", "c", "a", "l", "h", "o", "s", "t", ":">>
PlayerPath(media_type) == <<"/", "a", "p", "p", "/", "p", "l", "a", "y", "e", "r", "/">> \o media_type \o <<".", "h", "t", "m", "l">>

\* MainWindow.setup (window/main.py lines 56-63)
MainWindowUrl(path, token, port) ==
    HttpLocalhost \o IntStr(port) \o path \o <<"?">>
        \o UrlEncode(DictDisplay(<<>>, SettingsItems(token, port)))

\* PlayerWindow.__init__ (window/player.py lines 62-70)
PlayerWindowUrl(media_type, token, port, media) ==
    HttpLocalhost \o IntStr(port) \o PlayerPath(media_type) \o <<"?">>
        \o UrlEncode(DictDisplay(<<>>, SettingsItems(token, port) \o MediaDict(media)))

NoUrl == [window |-> "none", token |-> <<>>, port |-> 0, media |-> <<>>, text |-> <<>>]

\* ---- the state after Application.__init__(command="main"): the connect phase
\* is scheduled with create_task (line 105), nothing has run yet
Init ==
    /\ tasks = [i \in TaskIds |-> IF i = 1 THEN NewSetup(TRUE) ELSE FreeTask]
    /\ ready = <<1>>
    /\ listenTask = 0
    /\ connected = FALSE
    /\ data = [m \in Modules |-> None]
    /\ exitPc = "idle"
    /\ exitTask = 0
    /\ exitReq = "none"
    /\ exitCalls = 0
    /\ exitResult = "none"
    /\ loopClosed = FALSE
    /\ lastDone = NothingEnded
    /\ lastApply = NothingApplied
    /\ trayText = InitialTrayText
    /\ loopDriven = TRUE
    /\ url = NoUrl

\* the loop runs callbacks while its owner drives it: until the first
\* _exit_application, and then inside the run_until_complete calls of
\* _exit_application only (after sys.exit nothing drives it any more)
LoopRunning ==
    /\ ~loopClosed
    /\ \/ loopDriven /\ exitPc = "idle" /\ exitCalls = 0
       \/ exitPc \in {"connecting", "request", "close"}

\* task slots the scheduled connect phases will still need for their listeners
PendingSpawn ==
    Cardinality({t \in TaskIds : /\ tasks[t].kind = "setup" /\ tasks[t].listen
                                 /\ tasks[t].pc \in {"start", "connect"}})
SlotsLeft(n) == Cardinality(FreeIds(tasks)) >= PendingSpawn + n

AtHead(k, pcs) ==
    /\ LoopRunning
    /\ ready # <<>>
    /\ tasks[Head(ready)].kind = k
    /\ tasks[Head(ready)].pc \in pcs

\* ---- _setup_websocket, one action per stretch between two awaits

\* lines 313-320: enter asyncio.timeout(10) and await connect()
StepSetupStart ==
    /\ AtHead("setup", {"start"})
    /\ LET t == Head(ready)
       IN  tasks' = [tasks EXCEPT ![t].pc = "connect", ![t].budget = TimeoutSeconds]
    /\ ready' = Tail(ready)
    /\ UNCHANGED <<listenTask, connected, data, exitPc, exitTask, exitReq,
                   exitCalls, loopClosed>>
    /\ lastApply' = NothingApplied
    /\ UNCHANGED <<trayText, loopDriven, url>>
    /\ lastDone' = NothingEnded
    /\ exitResult' = "none"

\* lines 320-324: connect() returned and listen is False
StepSetupConnectOnly ==
    /\ AtHead("setup", {"connect"})
    /\ LET t == Head(ready)
       IN  /\ tasks[t].res = "ok"
           /\ ~tasks[t].listen
           /\ tasks' = Collected([tasks EXCEPT ![t] = Finished(tasks[t])],
                                 listenTask, exitTask)
           /\ lastDone' = Ended(tasks[t], "ok", FALSE)
    /\ ready' = Tail(ready)
    /\ connected' = TRUE
    /\ UNCHANGED <<listenTask, data, exitPc, exitTask, exitReq, exitCalls,
                   loopClosed>>
    /\ lastApply' = NothingApplied
    /\ UNCHANGED <<trayText, loopDriven, url>>
    /\ exitResult' = "none"

\* lines 320-335: connect() returned, _setup_listener runs in the executor (the
\* with block waits for it), then get_data() is awaited
StepSetupListen ==
    /\ AtHead("setup", {"connect"})
    /\ LET t == Head(ready)
           s == SetupListener(tasks, Tail(ready), listenTask)
       IN  /\ tasks[t].res = "ok"
           /\ tasks[t].listen
           /\ tasks' = Collected([s.tasks EXCEPT ![t].pc = "get_data",
                                                 ![t].res = "none"],
                                 s.handle, exitTask)
           /\ ready' = s.ready
           /\ listenTask' = s.handle
    /\ connected' = TRUE
    /\ UNCHANGED <<data, exitPc, exitTask, exitReq, exitCalls, loopClosed>>
    /\ lastApply' = NothingApplied
    /\ UNCHANGED <<trayText, loopDriven, url>>
    /\ lastDone' = NothingEnded
    /\ exitResult' = "none"

\* lines 338-340: one test of the wait loop, after get_data() or after a sleep
StepSetupWait ==
    /\ AtHead("setup", {"get_data", "sleep"})
    /\ LET t == Head(ready)
       IN  /\ tasks[t].res = "ok"
           /\ IF WaitOver(data)
              THEN /\ tasks' = Collected([tasks EXCEPT ![t] = Finished(tasks[t])],
                                         listenTask, exitTask)
                   /\ lastDone' = Ended(tasks[t], "ok", FALSE)
              ELSE /\ tasks' = [tasks EXCEPT ![t].pc = "sleep", ![t].res = "none"]
                   /\ lastDone' = NothingEnded
    /\ ready' = Tail(ready)
    /\ UNCHANGED <<listenTask, connected, data, exitPc, exitTask, exitReq,
                   exitCalls, loopClosed>>
    /\ lastApply' = NothingApplied
    /\ UNCHANGED <<trayText, loopDriven, url>>
    /\ exitResult' = "none"

\* lines 341-358: an exception of the connector, or the TimeoutError of the
\* timeout block, ends the connect phase in one of the except clauses
StepSetupFail ==
    /\ AtHead("setup", {"connect", "get_data", "sleep"})
    /\ LET t == Head(ready)
           h == FailureHandler(tasks, Tail(ready), listenTask)
       IN  /\ tasks[t].res \in Failures \cup {"timeout"}
           /\ tasks' = Collected([h.tasks EXCEPT ![t] = Finished(tasks[t])],
                                 h.handle, exitTask)
           /\ ready' = h.ready
           /\ listenTask' = h.handle
           /\ lastDone' = Ended(tasks[t], tasks[t].res, FALSE)
    /\ UNCHANGED <<connected, data, exitPc, exitTask, exitReq, exitCalls,
                   loopClosed>>
    /\ lastApply' = NothingApplied
    /\ UNCHANGED <<trayText, loopDriven, url>>
    /\ exitResult' = "none"

\* ---- _listen_for_data

\* line 277: the first step of the task awaits listen()
StepListenStart ==
    /\ AtHead("listen", {"start"})
    /\ LET t == Head(ready)
       IN  /\ tasks[t].res = "none"
           /\ tasks' = [tasks EXCEPT ![t].pc = "listen"]
    /\ ready' = Tail(ready)
    /\ UNCHANGED <<listenTask, connected, data, exitPc, exitTask, exitReq,
                   exitCalls, loopClosed>>
    /\ lastApply' = NothingApplied
    /\ UNCHANGED <<trayText, loopDriven, url>>
    /\ lastDone' = NothingEnded
    /\ exitResult' = "none"

\* a task cancelled before its first step never enters the coroutine body
StepListenNeverRan ==
    /\ AtHead("listen", {"start"})
    /\ LET t == Head(ready)
       IN  /\ tasks[t].res = "cancelled"
           /\ tasks' = Collected([tasks EXCEPT ![t] = Finished(tasks[t])],
                                 listenTask, exitTask)
           /\ lastDone' = Ended(tasks[t], "cancelled", FALSE)
    /\ ready' = Tail(ready)
    /\ UNCHANGED <<listenTask, connected, data, exitPc, exitTask, exitReq,
                   exitCalls, loopClosed>>
    /\ lastApply' = NothingApplied
    /\ UNCHANGED <<trayText, loopDriven, url>>
    /\ exitResult' = "none"

\* lines 278-289: a caught exception, then the teardown
StepListenEnd ==
    /\ AtHead("listen", {"listen"})
    /\ LET t == Head(ready)
           d == ListenTeardown(tasks, Tail(ready), listenTask, t)
       IN  /\ tasks[t].res \in ListenCaught
           /\ tasks' = Collected([d.tasks EXCEPT ![t] = Finished(tasks[t])],
                                 d.handle, exitTask)
           /\ ready' = d.ready
           /\ listenTask' = d.handle
           /\ connected' = IF tasks[t].res = "closed" THEN FALSE ELSE connected
           /\ lastDone' = Ended(tasks[t], tasks[t].res, FALSE)
    /\ UNCHANGED <<data, exitPc, exitTask, exitReq, exitCalls, loopClosed>>
    /\ lastApply' = NothingApplied
    /\ UNCHANGED <<trayText, loopDriven, url>>
    /\ exitResult' = "none"

\* an exception no except clause names leaves the coroutine: the task ends with
\* the exception and lines 287-289 are not reached
StepListenUncaught ==
    /\ AtHead("listen", {"listen"})
    /\ LET t == Head(ready)
       IN  /\ tasks[t].res \in Failures \ ListenCaught
           /\ tasks' = Collected([tasks EXCEPT ![t] = Finished(tasks[t])],
                                 listenTask, exitTask)
           /\ lastDone' = Ended(tasks[t], tasks[t].res, TRUE)
    /\ ready' = Tail(ready)
    /\ UNCHANGED <<listenTask, connected, data, exitPc, exitTask, exitReq,
                   exitCalls, loopClosed>>
    /\ lastApply' = NothingApplied
    /\ UNCHANGED <<trayText, loopDriven, url>>
    /\ exitResult' = "none"

\* ---- the connector and the clock: what the awaits of the tasks wait for

Waiting(t, pc) ==
    /\ LoopRunning
    /\ tasks[t].pc = pc
    /\ tasks[t].res = "none"

Wake(t, r) ==
    /\ tasks' = [tasks EXCEPT ![t].res = r]
    /\ ready' = Enqueue(ready, t)
    /\ UNCHANGED <<listenTask, connected, data, exitPc, exitTask, exitReq,
                   exitCalls, loopClosed>>
    /\ lastApply' = NothingApplied
    /\ UNCHANGED <<trayText, loopDriven, url>>
    /\ lastDone' = NothingEnded
    /\ exitResult' = "none"

\* await self._websocket_client.connect() completes (line 320)
ConnectDone(t, r) ==
    /\ Waiting(t, "connect")
    /\ Wake(t, r)

\* await self._websocket_client.get_data(...) completes (line 331); nothing can
\* be sent on a socket that is not connected
GetDataDone(t, r) ==
    /\ Waiting(t, "get_data")
    /\ r = "ok" => connected
    /\ Wake(t, r)

\* listen() receives a message and calls back _handle_module (lines 264-272)
\* inside the listening task, which then goes on waiting
ListenMessage(t, m) ==
    /\ LoopRunning
    /\ Waiting(t, "listen")
    /\ connected
    /\ data' = HandleModule(data, m[1], m[2])
    /\ lastApply' = [module |-> m[1], payload |-> m[2], old |-> data[m[1]]]
    /\ trayText' = UpdateTrayData(data')
    /\ UNCHANGED <<loopDriven, url>>
    /\ UNCHANGED <<tasks, ready, listenTask, connected, exitPc, exitTask,
                   exitReq, exitCalls, loopClosed>>
    /\ lastDone' = NothingEnded
    /\ exitResult' = "none"

\* listen() raises (line 277)
ListenFails(t, r) ==
    /\ Waiting(t, "listen")
    /\ Wake(t, r)

InTimeout(t) ==
    tasks[t].kind = "setup" /\ tasks[t].pc \in {"connect", "get_data", "sleep"}

\* asyncio.sleep(1) is over (line 340): a second of the budget is used up. The
\* timeout was armed before the first sleep began, so a sleep that would last
\* to the deadline or beyond is cut short by the timeout instead
SleepFire(t) ==
    /\ Waiting(t, "sleep")
    /\ tasks[t].budget > PollSeconds
    /\ tasks' = [tasks EXCEPT ![t].res = "ok", ![t].budget = @ - PollSeconds]
    /\ ready' = Enqueue(ready, t)
    /\ UNCHANGED <<listenTask, connected, data, exitPc, exitTask, exitReq,
                   exitCalls, loopClosed>>
    /\ lastApply' = NothingApplied
    /\ UNCHANGED <<trayText, loopDriven, url>>
    /\ lastDone' = NothingEnded
    /\ exitResult' = "none"

\* the deadline of asyncio.timeout(10) (line 318) passes while the task is at an
\* await of the block: the task is cancelled there and the block turns the
\* cancellation into TimeoutError. How long connect() and get_data() take is up
\* to the connector, so the deadline can pass at any await
TimeoutFire(t) ==
    /\ LoopRunning
    /\ InTimeout(t)
    /\ tasks[t].res # "timeout"
    /\ Wake(t, "timeout")

\* ---- the callers

\* self._loop.create_task(self._setup_websocket()) (line 105), called again for
\* a new connection once the previous connect phase has ended
CallSetupWebsocket ==
    /\ exitPc = "idle"
    /\ exitCalls = 0
    /\ ~loopClosed
    /\ \A t \in TaskIds : tasks[t].kind # "setup"
    /\ SlotsLeft(2)
    /\ LET n == NextId(tasks)
       IN  /\ tasks' = [tasks EXCEPT ![n] = NewSetup(TRUE)]
           /\ ready' = Append(ready, n)
    /\ UNCHANGED <<listenTask, connected, data, exitPc, exitTask, exitReq,
                   exitCalls, loopClosed>>
    /\ lastApply' = NothingApplied
    /\ UNCHANGED <<trayText, loopDriven, url>>
    /\ lastDone' = NothingEnded
    /\ exitResult' = "none"

\* ---- _exit_application(0)

\* an _exit_application that starts with the cancel of the listener
ExitCancelsFirst(conn) == "cancel"

\* lines 225-231: which run_until_complete comes first
ExitFirstStep(conn) == IF conn THEN "request" ELSE "connecting"

\* lines 232-245: close() is reached only when exit_backend() did not raise
ExitAfterRequest(r) == IF r = "ok" THEN "close" ELSE "cancel"

\* run_until_complete on a closed loop raises RuntimeError, which the except
\* clause of lines 237-242 does not name: the call ends with that error
ExitOnClosedLoop ==
    /\ exitPc = "idle"
    /\ exitCalls < MaxExits
    /\ loopClosed
    /\ exitCalls' = exitCalls + 1
    /\ exitReq' = "none"
    /\ exitResult' = "error"
    /\ UNCHANGED <<tasks, ready, listenTask, connected, data, exitPc, exitTask,
                   loopClosed>>
    /\ lastApply' = NothingApplied
    /\ UNCHANGED <<trayText, loopDriven, url>>
    /\ lastDone' = NothingEnded

\* lines 222-231 on a connected client
ExitBegin ==
    /\ exitPc = "idle"
    /\ exitCalls < MaxExits
    /\ ~loopClosed
    /\ connected
    /\ exitCalls' = exitCalls + 1
    /\ exitReq' = "none"
    /\ exitResult' = "none"
    /\ exitPc' = ExitFirstStep(connected)
    /\ UNCHANGED <<tasks, ready, listenTask, connected, data, exitTask,
                   loopClosed>>
    /\ lastApply' = NothingApplied
    /\ UNCHANGED <<trayText, loopDriven, url>>
    /\ lastDone' = NothingEnded

\* lines 222-230 on a client that is not connected:
\* run_until_complete(self._setup_websocket(listen=False))
ExitReconnect ==
    /\ exitPc = "idle"
    /\ exitCalls < MaxExits
    /\ ~loopClosed
    /\ ~connected
    /\ SlotsLeft(1)
    /\ exitCalls' = exitCalls + 1
    /\ exitReq' = "none"
    /\ exitResult' = "none"
    /\ exitPc' = ExitFirstStep(connected)
    /\ LET n == NextId(tasks)
       IN  /\ tasks' = [tasks EXCEPT ![n] = NewSetup(FALSE)]
           /\ ready' = Append(ready, n)
           /\ exitTask' = n
    /\ UNCHANGED <<listenTask, connected, data, loopClosed>>
    /\ lastApply' = NothingApplied
    /\ UNCHANGED <<trayText, loopDriven, url>>
    /\ lastDone' = NothingEnded

\* run_until_complete returns when the connect phase has ended
ExitConnected ==
    /\ exitPc = "connecting"
    /\ tasks[exitTask].pc = "done"
    /\ exitPc' = "request"
    /\ exitTask' = 0
    /\ tasks' = Collected(tasks, listenTask, 0)
    /\ UNCHANGED <<ready, listenTask, connected, data, exitReq, exitCalls,
                   loopClosed>>
    /\ lastApply' = NothingApplied
    /\ UNCHANGED <<trayText, loopDriven, url>>
    /\ lastDone' = NothingEnded
    /\ exitResult' = "none"

\* lines 231-234: run_until_complete(self._websocket_client.exit_backend())
ExitRequest(r) ==
    /\ exitPc = "request"
    /\ r = "ok" => connected
    /\ exitReq' = r
    /\ exitPc' = ExitAfterRequest(r)
    /\ UNCHANGED <<tasks, ready, listenTask, connected, data, exitTask,
                   exitCalls, loopClosed>>
    /\ lastApply' = NothingApplied
    /\ UNCHANGED <<trayText, loopDriven, url>>
    /\ lastDone' = NothingEnded
    /\ exitResult' = "none"

\* lines 235-236: run_until_complete(self._websocket_client.close())
ExitClose ==
    /\ exitPc = "close"
    /\ connected' = FALSE
    /\ exitPc' = "cancel"
    /\ UNCHANGED <<tasks, ready, listenTask, data, exitTask, exitReq,
                   exitCalls, loopClosed>>
    /\ lastApply' = NothingApplied
    /\ UNCHANGED <<trayText, loopDriven, url>>
    /\ lastDone' = NothingEnded
    /\ exitResult' = "none"

\* lines 247-262: cancel the listener, stop and close the loop, sys.exit
ExitCancel ==
    /\ exitPc = "cancel"
    /\ LET c == CancelHandle(tasks, ready, listenTask, "exit")
       IN  /\ tasks' = Collected(c.tasks, c.handle, exitTask)
           /\ ready' = c.ready
           /\ listenTask' = c.handle
    /\ loopClosed' = (listenTask # 0)
    /\ exitPc' = "idle"
    /\ exitResult' = "exited"
    /\ UNCHANGED <<connected, data, exitTask, exitReq, exitCalls>>
    /\ lastApply' = NothingApplied
    /\ UNCHANGED <<trayText, loopDriven, url>>
    /\ lastDone' = NothingEnded

Next ==
    \/ StepSetupStart
    \/ StepSetupConnectOnly
    \/ StepSetupListen
    \/ StepSetupWait
    \/ StepSetupFail
    \/ StepListenStart
    \/ StepListenNeverRan
    \/ StepListenEnd
    \/ StepListenUncaught
    \/ \E t \in TaskIds, r \in {"ok"} \cup Failures : ConnectDone(t, r)
    \/ \E t \in TaskIds, r \in {"ok"} \cup Failures : GetDataDone(t, r)
    \/ \E t \in TaskIds, m \in Msgs : ListenMessage(t, m)
    \/ \E t \in TaskIds, r \in Failures : ListenFails(t, r)
    \/ \E t \in TaskIds : SleepFire(t)
    \/ \E t \in TaskIds : TimeoutFire(t)
    \/ CallSetupWebsocket
    \/ ExitOnClosedLoop
    \/ ExitBegin
    \/ ExitReconnect
    \/ ExitConnected
    \/ \E r \in {"ok"} \cup Failures : ExitRequest(r)
    \/ ExitClose
    \/ ExitCancel

Spec == Init /\ [][Next]_vars

\* ---- the claims

\* a receive loop is active while its task has neither ended nor been cancelled
Active(t) ==
    /\ t # 0
    /\ tasks[t].kind = "listen"
    /\ tasks[t].pc # "done"
    /\ tasks[t].res # "cancelled"
ActiveNext(t) ==
    /\ t # 0
    /\ tasks'[t].kind = "listen"
    /\ tasks'[t].pc # "done"
    /\ tasks'[t].res # "cancelled"

\* a step that ends with a new task in the handle: _setup_listener has run
StartsListener == listenTask' # 0 /\ listenTask' # listenTask

\* C1: at most one receive loop is active in every reachable state, the active
\* one is the task the handle holds, and every _setup_listener leaves the task
\* the handle held before cancelled (or finished) and puts a task that did not
\* exist before into the handle.
C1_AtMostOneListener ==
    /\ [](\A t \in TaskIds : Active(t) => listenTask = t)
    /\ [](Cardinality({t \in TaskIds : Active(t)}) <= 1)
    /\ [][StartsListener =>
            /\ listenTask # 0 => ~ActiveNext(listenTask)
            /\ tasks[listenTask'].kind = "free"
            /\ ActiveNext(listenTask')]_vars

C1_Witness ==
    \E a, b \in TaskIds :
        /\ a # b
        /\ tasks[a].kind = "listen" /\ tasks[a].pc = "listen"
        /\ tasks[a].res = "cancelled"
        /\ Active(b)
        /\ listenTask = b

\* C2: no call of _exit_application(0) ends with an error, the first or the
\* second (the part of the claim that fails by the code of shutdown itself).
C2_NoErrorOnEitherCall == exitResult # "error"

\* C3: when the connect phase ends with the timeout error, at whichever await
\* the deadline caught it, the handle is None and no receive loop is active.
C3_TimeoutLeavesNoListener ==
    (lastDone.kind = "setup" /\ lastDone.out = "timeout") =>
        /\ listenTask = 0
        /\ \A t \in TaskIds : ~Active(t)

C3_Witness ==
    /\ lastDone.kind = "setup" /\ lastDone.listen
    /\ lastDone.out = "timeout" /\ lastDone.at = "sleep"
    /\ listenTask = 0
    /\ \E t \in TaskIds : tasks[t].kind = "listen" /\ tasks[t].res = "cancelled"

\* C4: when the connect phase ends with any failure (an exception of the
\* connector or the timeout), the client is not connected and the handle is None.
C4_FailureLeavesDisconnected ==
    (lastDone.kind = "setup" /\ lastDone.out \in Failures \cup {"timeout"}) =>
        ~connected /\ listenTask = 0

\* C5: when a receive loop that was cancelled finishes its teardown while the
\* handle holds another, active receive loop (the one _setup_listener started
\* after cancelling it), that loop is still active and still in the handle.
C5_NewLoopSurvivesTeardown ==
    [][(/\ lastDone'.kind = "listen" /\ lastDone'.out = "cancelled"
        /\ lastDone'.at = "listen"
        /\ ready # <<>> /\ listenTask # Head(ready)
        /\ Active(listenTask))
       => (listenTask' = listenTask /\ ActiveNext(listenTask))]_vars

\* a step of _exit_application itself (the loop's steps leave exitPc alone)
ExitStep == exitPc' # exitPc

C7_SocketClosedAfterFailedRequest ==
    (exitResult = "exited" /\ exitReq \in Failures) => ~connected

\* C8: a receive loop whose listen() failed with an exception of the connector,
\* or that was cancelled while listening, ends without an unhandled exception
\* and with the handle cleared.
C8_NoFailureEscapes ==
    (lastDone.kind = "listen" /\ lastDone.at = "listen") =>
        ~lastDone.exc /\ listenTask = 0

\* C9: after every call of _handle_module the field of the module it names
\* holds the payload it was given, whatever the field held before, and the
\* field of every other module is what it was.
C9_LastWriteWins ==
    /\ [](lastApply.module # "none" =>
            data[lastApply.module] = lastApply.payload)
    /\ [][lastApply'.module # "none" =>
            \A m \in Modules \ {lastApply'.module} : data'[m] = data[m]]_vars

C9_Witness ==
    /\ lastApply = [module |-> "system", payload |-> "B", old |-> "A"]
    /\ data["system"] = "B"

\* ---- the wait for the initial data

\* the loop took the step of the task at the head of its queue
Popped == ready # <<>> /\ (ready' = <<>> \/ Head(ready') # Head(ready))

\* task t makes one test of the wait loop in this step
Polls(t) ==
    /\ Popped
    /\ Head(ready) = t
    /\ tasks[t].kind = "setup"
    /\ tasks[t].pc \in {"get_data", "sleep"}
    /\ tasks[t].res = "ok"

\* while the loop runs it takes the ready steps and fires the timeout
LoopSteps ==
    \/ StepSetupStart
    \/ StepSetupConnectOnly
    \/ StepSetupListen
    \/ StepSetupWait
    \/ StepSetupFail
    \/ StepListenStart
    \/ StepListenNeverRan
    \/ StepListenEnd
    \/ StepListenUncaught

\* the one connect the program itself starts (__init__, line 105) and what
\* can follow it: the steps of the loop, the connector's answers (one payload
\* for each module), the timeout and the shutdown
StartupMsgs == Modules \X {"A"}

StartupNext ==
    \/ LoopSteps
    \/ \E t \in TaskIds, r \in {"ok"} \cup Failures : ConnectDone(t, r)
    \/ \E t \in TaskIds, r \in {"ok"} \cup Failures : GetDataDone(t, r)
    \/ \E t \in TaskIds, m \in StartupMsgs : ListenMessage(t, m)
    \/ \E t \in TaskIds, r \in Failures : ListenFails(t, r)
    \/ \E t \in TaskIds : SleepFire(t)
    \/ \E t \in TaskIds : TimeoutFire(t)
    \/ ExitOnClosedLoop
    \/ ExitBegin
    \/ ExitReconnect
    \/ ExitConnected
    \/ \E r \in {"ok"} \cup Failures : ExitRequest(r)
    \/ ExitClose
    \/ ExitCancel

LiveSpec ==
    /\ Init
    /\ [][StartupNext]_vars
    /\ WF_vars(LoopSteps)
    /\ \A t \in TaskIds : WF_vars(TimeoutFire(t))

\* C10: the wait loop tests the model when get_data() has returned and then
\* only when a sleep of one second is over; a test that finds the system field
\* set ends the connect phase, any other test starts the next sleep; every
\* sleep uses up a second of the ten, and a task in the wait loop leaves it
\* for as long as the loop is run.
C10_WaitLoop ==
    /\ [](\A t \in TaskIds :
            tasks[t].pc = "sleep" => tasks[t].budget \in 1..TimeoutSeconds)
    /\ [][\A t \in TaskIds :
            (/\ tasks[t].pc = "sleep" /\ tasks[t].res = "none"
             /\ tasks'[t].pc = "sleep" /\ tasks'[t].res = "ok")
            => tasks'[t].budget = tasks[t].budget - PollSeconds]_vars
    /\ [][\A t \in TaskIds :
            Polls(t) =>
                IF data["system"] # None
                THEN lastDone' = [kind |-> "setup", listen |-> TRUE,
                                  at |-> tasks[t].pc, out |-> "ok", exc |-> FALSE]
                ELSE tasks'[t].pc = "sleep" /\ tasks'[t].res = "none"]_vars
    /\ \A t \in TaskIds :
            (tasks[t].pc = "sleep") ~> (tasks[t].pc # "sleep" \/ ~LoopRunning)

C10_Witness ==
    /\ lastDone = [kind |-> "setup", listen |-> TRUE, at |-> "sleep",
                   out |-> "ok", exc |-> FALSE]
    /\ data["system"] # None

\* ---- main mode

\* the state after Application.__init__(command="main") has scheduled the
\* connect phase (line 105) and entered QApplication.exec() (line 166)
MainInit ==
    /\ tasks = [i \in TaskIds |-> IF i = 1 THEN NewSetup(TRUE) ELSE FreeTask]
    /\ ready = <<1>>
    /\ listenTask = 0
    /\ connected = FALSE
    /\ data = [m \in Modules |-> None]
    /\ exitPc = "idle"
    /\ exitTask = 0
    /\ exitReq = "none"
    /\ exitCalls = 0
    /\ exitResult = "none"
    /\ loopClosed = FALSE
    /\ lastDone = NothingEnded
    /\ lastApply = NothingApplied
    /\ trayText = InitialTrayText
    /\ loopDriven = FALSE
    /\ url = NoUrl

\* the backend is reachable, accepts the token and answers the initial request
BackendAnswers ==
    /\ \A t \in TaskIds : WF_vars(ConnectDone(t, "ok"))
    /\ \A t \in TaskIds : WF_vars(GetDataDone(t, "ok"))
    /\ \A t \in TaskIds : WF_vars(ListenMessage(t, <<"system", "A">>))

\* main mode: the loop takes its ready steps whenever it is run, the timeout
\* fires, the backend answers; the exit request is the user's to make or not
MainSpec ==
    /\ MainInit
    /\ [][StartupNext]_vars
    /\ WF_vars(LoopSteps)
    /\ \A t \in TaskIds : WF_vars(TimeoutFire(t))
    /\ BackendAnswers

\* a connect phase ended with an exception of the connector or the timeout
BackendFailed == lastDone.out \in Failures \cup {"timeout"} \/ lastDone.exc

\* C12: in main mode, unless an exit request is made or the backend fails, the
\* scheduled connect task eventually runs, a receive loop eventually starts,
\* and the system field is eventually set and shown by the tray.
C12_DataFlows ==
    /\ <>(exitCalls > 0 \/ BackendFailed \/ tasks[1].pc # "start")
    /\ <>(exitCalls > 0 \/ BackendFailed \/ listenTask # 0)
    /\ <>(\/ exitCalls > 0
          \/ BackendFailed
          \/ data["system"] # None /\ trayText = UpdateTrayData(data))

\* ---- the windows' URLs

\* the other variables, which the windows do not touch
AppVars == <<tasks, ready, listenTask, connected, data, exitPc, exitTask,
             exitReq, exitCalls, exitResult, loopClosed, lastDone, lastApply,
             trayText, loopDriven>>

\* _callback_show_window -> MainWindow.setup(path): the browser loads the URL
ShowWindow(path, token, port) ==
    /\ url' = [window |-> "main", token |-> token, port |-> port,
               media |-> <<>>, text |-> MainWindowUrl(path, token, port)]
    /\ UNCHANGED AppVars

\* PlayerWindow(settings, icon, application, media_type, media_play)
OpenPlayer(media_type, token, port, media) ==
    /\ url' = [window |-> "player", token |-> token, port |-> port,
               media |-> MediaDict(media),
               text |-> PlayerWindowUrl(media_type, token, port, media)]
    /\ UNCHANGED AppVars

UrlInit == MainInit

UrlNext ==
    \/ \E path \in Paths, token \in Tokens, port \in ApiPorts :
            ShowWindow(path, token, port)
    \/ \E media_type \in MediaTypes, token \in Tokens, port \in ApiPorts,
          media \in MediaPlays :
            OpenPlayer(media_type, token, port, media)

UrlSpec == UrlInit /\ [][UrlNext]_vars

\* reading a URL back: the query string is what follows the first "?", its
\* items are separated by "&", key and value by the first "=", and both are
\* percent-decoded
RECURSIVE AfterFirst(_, _)
AfterFirst(str, c) ==
    IF str = <<>> THEN <<>>
    ELSE IF Head(str) = c THEN Tail(str) ELSE AfterFirst(Tail(str), c)
RECURSIVE BeforeFirst(_, _)
BeforeFirst(str, c) ==
    IF str = <<>> \/ Head(str) = c THEN <<>>
    ELSE <<Head(str)>> \o BeforeFirst(Tail(str), c)
RECURSIVE SplitOn(_, _)
SplitOn(str, c) ==
    IF \E i \in 1..Len(str) : str[i] = c
    THEN <<BeforeFirst(str, c)>> \o SplitOn(AfterFirst(str, c), c)
    ELSE <<str>>
RECURSIVE UnquotePlus(_)
UnquotePlus(str) ==
    IF str = <<>> THEN <<>>
    ELSE IF Head(str) = "+" THEN <<" ">> \o UnquotePlus(Tail(str))
    ELSE IF Head(str) = "%" /\ Len(str) >= 3
    THEN <<CHOOSE c \in DOMAIN PercentCode : PercentCode[c] = <<str[2], str[3]>>>>
            \o UnquotePlus(SubSeq(str, 4, Len(str)))
    ELSE <<Head(str)>> \o UnquotePlus(Tail(str))
ParseQuery(q) ==
    LET items == IF q = <<>> THEN <<>> ELSE SplitOn(q, "&")
    IN  [i \in 1..Len(items) |->
            <<UnquotePlus(BeforeFirst(items[i], "=")),
              UnquotePlus(AfterFirst(items[i], "="))>>]

\* C11: the query string of every URL a window loads has the token key first
\* and the api-port key second, each once and with the values of the settings,
\* and after them exactly the page's own items: none for the main window, the
\* non-null fields of the media-play record, in their order, for the player
\* (no field of the media-play record bears the name of either key).
C11_QueryCarriesSettings ==
    url # NoUrl =>
        LET q == ParseQuery(AfterFirst(url.text, "?"))
        IN  /\ Len(q) = 2 + Len(url.media)
            /\ q[1] = <<QUERY_TOKEN, url.token>>
            /\ q[2] = <<QUERY_API_PORT, IntStr(url.port)>>
            /\ \A i \in 3..Len(q) :
                    /\ q[i] = url.media[i - 2]
                    /\ q[i][1] \notin {QUERY_TOKEN, QUERY_API_PORT}

C11_Witness ==
    /\ url.window = "player"
    /\ url.token = <<"a", "&", "b", "=", "c">>
    /\ url.port = 9174
    /\ Len(url.media) = 2
    /\ url.text = PlayerWindowUrl(<<"a", "u", "d", "i", "o">>, url.token, url.port,
                    <<MediaNull, [null |-> FALSE, str |-> <<"4", "0">>],
                      [null |-> FALSE,
                       str |-> <<"a", " ", "b", "?", "x", "=", "1", "&", "y">>]>>)

\* ---- the tray's update entry

\* C13: after every call of _handle_module the update entry reads the
\* new-version text, with the latest version, only if the system data reports
\* that a newer version is available; it reads "Up to date" with the current
\* version if the system data has a current version and reports that no newer
\* version is available; it reads "Check for Updates" if there is no system data.
C13_UpdateLabel ==
    lastApply.module # "none" =>
        /\ trayText[1] = "New version avaliable" =>
                /\ SystemAttr(data, "version_newer_available") = "True"
                /\ trayText[2] = SystemAttr(data, "version_latest")
        /\ (/\ SystemAttr(data, "version") # None
            /\ SystemAttr(data, "version_newer_available") = "False")
                => trayText = <<"Up to date", SystemAttr(data, "version")>>
        /\ data["system"] = None => trayText = <<"Check for Updates", None>>
=============================================================================
